---- MODULE Spec2Model ----
(***************************************************************************)
(* DumbBudget: the recurrence engine of the server (pattern parser, anchor *)
(* adjustment in POST /api/transactions, generateRecurringInstances) under *)
(* Spec, and the data file with the handlers that write and query it       *)
(* (POST, PUT, DELETE, the range, totals and export routes) under          *)
(* StoreSpec.  ZoneSpec runs the engine in three server timezones,         *)
(* CalendarSpec adds the calendar endpoint, InstanceDeleteSpec DELETE with *)
(* the id of a generated instance, RaceSpec the write handlers running     *)
(* concurrently, and PinSpec is POST /verify-pin with its lockout.         *)
(*                                                                         *)
(* Representation.                                                         *)
(*   - A date string "YYYY-MM-DD" is the number of its civil day (days     *)
(*     since 1970-01-01); SplitDate gives its year, month and day fields.  *)
(*   - A JavaScript Date object is its instant in hours since the epoch    *)
(*     (UTC).  The server's local time is UTC + tz hours, no DST.          *)
(*     new Date(y, m, d) and the get / set methods work on local fields,   *)
(*     toISOString and new Date("YYYY-MM-DD") on UTC fields.               *)
(*   - A recurring pattern string is the record of its tokens:             *)
(*       [form, n, unit, on, before, after]                                *)
(*         form = "regular"   "{before}every {n} {unit}[ on {on}]{after}"  *)
(*         form = "monthday"  "{before}every {n}th of the month{after}"    *)
(*         form = "other"     a text holding neither                       *)
(*         form = "none"      the empty string / no pattern                *)
(***************************************************************************)
EXTENDS Integers, Sequences, FiniteSets, TLC

VARIABLES
    tz,            \* server timezone, hours east of UTC
    transactions,  \* the stored transactions (the contents of the data file)
    request,       \* body of the last POST /api/transactions
    response,      \* status of the last answered request
    pc,            \* "idle" | "loop" | "done": position in generateRecurringInstances
    startDate,     \* arguments of the running / last generateRecurringInstances call
    endDate,
    pattern,       \* its locals
    currentDate,
    rangeStart,
    rangeEnd,
    until,
    addedDates,
    instances,
    dataFile,      \* the data file: month buckets [key, income, expenses], in key order
    reply,         \* body of the last answered range query on the present data file
    loginAttempts, \* loginAttempts.get(ip) of one ip: <<>> or <<[count, lastAttempt]>>
    now,           \* Date.now(), in minutes
    pending,       \* POST /verify-pin requests past the lockout check, timer not yet fired
    authenticated, \* req.session.authenticated of the client's session
    inflight,      \* write requests that have loaded the data file and not yet saved it
    acked,         \* ids of the transactions whose POST was answered 201
    gone           \* ids of the transactions whose DELETE was answered with success

vars == <<tz, transactions, request, response, pc, startDate, endDate, pattern,
          currentDate, rangeStart, rangeEnd, until, addedDates, instances,
          dataFile, reply, loginAttempts, now, pending, authenticated,
          inflight, acked, gone>>

\* the login state and the write requests in flight
login == <<loginAttempts, now, pending, authenticated>>
writers == <<inflight, acked, gone>>

(***************************************************************************)
(* Bounds of the explored inputs.                                          *)
(***************************************************************************)
MaxInterval == 2     \* N of "every N unit" ranges over 0..MaxInterval
ProposedSpan == 7    \* proposed dates: this many consecutive days
MaxStored == 2       \* transactions held by the data file at one time
MaxNow == 16         \* the clock runs from minute 0 to this minute
MaxPending == 2      \* POST /verify-pin requests waiting for their timer at one time
MaxInflight == 2     \* write requests between their load and their save at one time

(***************************************************************************)
(* Civil calendar (what the JavaScript Date object computes internally).   *)
(***************************************************************************)
\* days since 1970-01-01 of the civil date y-m-d, m in 1..12, y >= 1
DaysFromCivil(y, m, d) ==
    LET y1  == IF m <= 2 THEN y - 1 ELSE y
        era == y1 \div 400
        yoe == y1 - era * 400
        mp  == (m + 9) % 12
        doy == (153 * mp + 2) \div 5 + d - 1
        doe == yoe * 365 + yoe \div 4 - yoe \div 100 + doy
    IN  era * 146097 + doe - 719468

\* the civil date of day number z
CivilFromDays(z) ==
    LET z1  == z + 719468
        era == z1 \div 146097
        doe == z1 - era * 146097
        yoe == (doe - doe \div 1460 + doe \div 36524 - doe \div 146096) \div 365
        doy == doe - (365 * yoe + yoe \div 4 - yoe \div 100)
        mp  == (5 * doy + 2) \div 153
        d   == doy - (153 * mp + 2) \div 5 + 1
        m   == IF mp < 10 THEN mp + 3 ELSE mp - 9
        y   == yoe + era * 400 + (IF m <= 2 THEN 1 ELSE 0)
    IN  [y |-> y, m |-> m, d |-> d]

\* the date string "y-m-d"
DateStr(y, m, d) == DaysFromCivil(y, m, d)

\* date.split('-'): the fields of a date string
SplitDate(s) == CivilFromDays(s)

(***************************************************************************)
(* JavaScript Date objects.                                                *)
(***************************************************************************)
\* new Date(year, monthIndex, day): local midnight; monthIndex >= 0 and day
\* may overflow and are carried into the next month / year
NewDate(year, monthIndex, day) ==
    24 * (DaysFromCivil(year + monthIndex \div 12, (monthIndex % 12) + 1, 1) + day - 1) - tz

\* new Date("YYYY-MM-DD"): UTC midnight
NewDateFromString(s) == 24 * s

LocalFields(t) == CivilFromDays((t + tz) \div 24)
getFullYear(t) == LocalFields(t).y
getMonth(t) == LocalFields(t).m - 1
getDate(t) == LocalFields(t).d
\* 0 = sunday ... 6 = saturday; 1970-01-01 was a thursday
getDay(t) == (((t + tz) \div 24) + 4) % 7

setDate(t, day) == NewDate(getFullYear(t), getMonth(t), day)
setMonth(t, monthIndex) == NewDate(getFullYear(t), monthIndex, getDate(t))
setFullYear(t, year) == NewDate(year, getMonth(t), getDate(t))

\* date.toISOString().split('T')[0]: the UTC civil date of the instant
ToISODate(t) == t \div 24

\* a % b of JavaScript: truncated, the sign of the dividend (b > 0)
JsRem(a, b) == IF a >= 0 THEN a % b ELSE -((-a) % b)

(***************************************************************************)
(* Pattern strings and parseRecurringPattern.                              *)
(***************************************************************************)
weekdays == <<"sunday", "monday", "tuesday", "wednesday", "thursday", "friday", "saturday">>

\* weekdays.indexOf(name): 0-based, -1 when absent
IndexOfWeekday(name) ==
    IF \E i \in 1..7 : weekdays[i] = name
    THEN (CHOOSE i \in 1..7 : weekdays[i] = name) - 1
    ELSE -1

Units == {"day", "week", "month", "year"}

Regular(n, unit, on) ==
    [form |-> "regular", n |-> n, unit |-> unit, on |-> on, before |-> "", after |-> ""]
MonthDay(n) ==
    [form |-> "monthday", n |-> n, unit |-> "", on |-> "", before |-> "", after |-> ""]
OtherText ==
    [form |-> "other", n |-> 0, unit |-> "", on |-> "", before |-> "", after |-> ""]
\* the text p with other text around it, as in "xx every 1 day yy"
Embedded(p, before, after) == [p EXCEPT !.before = before, !.after = after]

\* String.prototype.toLowerCase on the words used as weekday tokens
ToLowerCase(w) == IF w = "Monday" THEN "monday" ELSE w

\* /every (\d+) (day|week|month|year)s?(?: on (\w+))?/ matches somewhere in the
\* text (the expression has no ^ and $ anchors): the text around it is not looked at
MatchesRegular(p) == p.form = "regular"
\* /every (\d+)(?:st|nd|rd|th) of the month/ matches somewhere in the text
MatchesMonthDay(p) == p.form = "monthday"

ParseError == [error |-> TRUE, interval |-> 0, unit |-> "", dayOfWeek |-> "", dayOfMonth |-> 0]

\* parseRecurringPattern; dayOfWeek "" is null, dayOfMonth is read only for monthday
parseRecurringPattern(p) ==
    IF MatchesRegular(p)
    THEN [error |-> FALSE, interval |-> p.n, unit |-> p.unit,
          dayOfWeek |-> ToLowerCase(p.on), dayOfMonth |-> 0]
    ELSE IF MatchesMonthDay(p)
    THEN [error |-> FALSE, interval |-> 1, unit |-> "monthday",
          dayOfWeek |-> "", dayOfMonth |-> p.n]
    ELSE ParseError

(***************************************************************************)
(* POST /api/transactions: the recurring part.                             *)
(***************************************************************************)
\* recurring = [pattern, until]; until is <<>> (absent) or <<date string>>
Recurring(p, u) == [pattern |-> p, until |-> u]

\* faulty variant of DaysToAdd: the wrap to the next week forgotten
DaysToAddNoWrap(targetDay, currentDay) == targetDay - currentDay

\* days to add to reach the target weekday (both the handler and the expansion)
DaysToAdd(targetDay, currentDay) ==
    IF targetDay - currentDay < 0 THEN targetDay - currentDay + 7 ELSE targetDay - currentDay

\* faulty variant of SelectedDayPassed: <= for <, day N itself counts as passed
SelectedDayPassedOrToday(selectedDate, date) == selectedDate <= NewDateFromString(date)

\* unit monthday: has the selected day passed (selectedDate < new Date(date))
SelectedDayPassed(selectedDate, date) == selectedDate < NewDateFromString(date)

\* the date stored for a recurring transaction proposed on `date`
AdjustedDate(date, recurring) ==
    LET p == parseRecurringPattern(recurring.pattern) IN
    IF p.unit = "week" /\ p.dayOfWeek # ""
    THEN LET selectedDate == NewDate(SplitDate(date).y, SplitDate(date).m - 1, SplitDate(date).d)
             daysToAdd == DaysToAdd(IndexOfWeekday(p.dayOfWeek), getDay(selectedDate))
         IN  ToISODate(setDate(selectedDate, getDate(selectedDate) + daysToAdd))
    ELSE IF p.unit = "monthday"
    THEN LET selectedDate == NewDate(SplitDate(date).y, SplitDate(date).m - 1, p.dayOfMonth)
         IN  IF SelectedDayPassed(selectedDate, date)
             THEN ToISODate(setMonth(selectedDate, getMonth(selectedDate) + 1))
             ELSE ToISODate(selectedDate)
    ELSE date

\* the validation of lines 342-348: one of the two expressions matches
ValidPattern(p) == MatchesRegular(p) \/ MatchesMonthDay(p)

\* the record the handler stores (id: crypto.randomUUID())
NewTransaction(id, date, recurring) ==
    [id |-> id, date |-> AdjustedDate(date, recurring),
     recurring |-> [pattern |-> recurring.pattern, until |-> recurring.until]]

(***************************************************************************)
(* generateRecurringInstances.                                             *)
(***************************************************************************)
\* new Date(y, m - 1, d) of a date string
LocalDateOf(s) == NewDate(SplitDate(s).y, SplitDate(s).m - 1, SplitDate(s).d)

\* lines 527-532: the loop's upper bound
UntilOf(transaction, end) ==
    IF transaction.recurring.until # <<>>
    THEN LocalDateOf(transaction.recurring.until[1])
    ELSE LocalDateOf(end)

\* lines 558-566: interval alignment of a weekly rule with a weekday
AlignWeek(cur, rStart, interval) ==
    LET weeksSinceStart == (cur - rStart) \div (7 * 24)
        remainingWeeks == JsRem(weeksSinceStart, interval)
    IN  IF remainingWeeks # 0
        THEN setDate(cur, getDate(cur) + (interval - remainingWeeks) * 7)
        ELSE cur

\* lines 518-567: the date the loop starts from
InitialDate(transaction, p, start) ==
    LET anchor == LocalDateOf(transaction.date) IN
    IF p.unit = "monthday"
    THEN LET first == NewDate(getFullYear(anchor), getMonth(anchor), p.dayOfMonth)
         IN  IF first < anchor THEN setMonth(first, getMonth(first) + 1) ELSE first
    ELSE IF p.unit = "week" /\ p.dayOfWeek # ""
    THEN LET onDay == setDate(anchor, getDate(anchor)
                          + DaysToAdd(IndexOfWeekday(p.dayOfWeek), getDay(anchor)))
         IN  IF p.interval > 1 THEN AlignWeek(onDay, LocalDateOf(start), p.interval) ELSE onDay
    ELSE anchor

\* faulty variant of ShouldEmit: the lower end of the window not tested
ShouldEmitNoStart(cur, rStart, rEnd, added) ==
    cur <= rEnd /\ ToISODate(cur) \notin added

\* faulty variant of ShouldEmit: the set of added dates not consulted
ShouldEmitNoDedup(cur, rStart, rEnd, added) ==
    cur >= rStart /\ cur <= rEnd

\* lines 577-579: the date is in the window and not yet added
ShouldEmit(cur, rStart, rEnd, added) ==
    cur >= rStart /\ cur <= rEnd /\ ToISODate(cur) \notin added

\* faulty variant of Instance: the amount of the parent not copied
InstanceNoAmount(transaction, dateStr) ==
    [id |-> <<transaction.id, dateStr>>, date |-> dateStr,
     isRecurringInstance |-> TRUE, recurringParentId |-> transaction.id]
        @@ [transaction EXCEPT !.amount = 0]

\* lines 581-587: { ...transaction, id, date, isRecurringInstance, recurringParentId }
\* (the id `${transaction.id}-${dateStr}` is the pair of its two parts)
Instance(transaction, dateStr) ==
    [id |-> <<transaction.id, dateStr>>, date |-> dateStr,
     isRecurringInstance |-> TRUE, recurringParentId |-> transaction.id]
        @@ transaction

\* faulty variant of Advance: a week rule steps one week whatever its interval
AdvanceOneWeek(p, cur) ==
    CASE p.unit = "day"      -> setDate(cur, getDate(cur) + p.interval)
      [] p.unit = "week"     -> setDate(cur, getDate(cur) + 7)
      [] p.unit = "month"    -> setMonth(cur, getMonth(cur) + p.interval)
      [] p.unit = "year"     -> setFullYear(cur, getFullYear(cur) + p.interval)
      [] p.unit = "monthday" -> setMonth(cur, getMonth(cur) + 1)
      [] OTHER               -> cur

\* lines 593-610: the advance switch
Advance(p, cur) ==
    CASE p.unit = "day"      -> setDate(cur, getDate(cur) + p.interval)
      [] p.unit = "week"     -> setDate(cur, getDate(cur) + p.interval * 7)
      [] p.unit = "month"    -> setMonth(cur, getMonth(cur) + p.interval)
      [] p.unit = "year"     -> setFullYear(cur, getFullYear(cur) + p.interval)
      [] p.unit = "monthday" -> setMonth(cur, getMonth(cur) + 1)
      [] OTHER               -> cur

\* the loop of lines 573-611 run to its end (defined when every step advances)
RECURSIVE RunLoop(_, _, _, _, _, _, _)
RunLoop(transaction, p, cur, rStart, rEnd, un, acc) ==
    IF cur <= un
    THEN RunLoop(transaction, p, Advance(p, cur), rStart, rEnd, un,
                 IF ShouldEmit(cur, rStart, rEnd, {acc[i].date : i \in 1..Len(acc)})
                 THEN Append(acc, Instance(transaction, ToISODate(cur)))
                 ELSE acc)
    ELSE acc

\* the value generateRecurringInstances returns
generateRecurringInstances(transaction, start, end) ==
    LET p == parseRecurringPattern(transaction.recurring.pattern)
    IN  RunLoop(transaction, p, InitialDate(transaction, p, start),
                LocalDateOf(start), LocalDateOf(end), UntilOf(transaction, end), <<>>)

(***************************************************************************)
(* Explored inputs.                                                        *)
(***************************************************************************)
TimeZones == {0}

ProposedDates ==
    {DateStr(2025, 1, 28) + k : k \in 0..(ProposedSpan - 1)}
        \cup {DateStr(2025, 1, 15), DateStr(2024, 2, 29)}

WeekdayNames == {weekdays[i] : i \in 1..7}

Patterns ==
    {Regular(n, u, "") : n \in 0..MaxInterval, u \in Units}
        \cup {Regular(n, "week", w) : n \in 0..MaxInterval, w \in WeekdayNames}
        \cup {Regular(1, "week", "Monday"), Regular(1, "week", "foo"),
              Regular(1, "day", "monday")}
        \cup {MonthDay(n) : n \in {0, 1, 15, 29, 31, 32}}
        \cup {Embedded(Regular(1, "day", ""), "xx ", " yy"),
              Embedded(Regular(1, "day", ""), "", "zzz"),
              Embedded(MonthDay(15), "xx ", "")}
        \cup {OtherText}

Untils == {<<>>, <<DateStr(2025, 2, 20)>>, <<DateStr(2024, 1, 1)>>}

WindowStarts ==
    {DateStr(2025, 1, 20), DateStr(2025, 1, 27), DateStr(2025, 2, 1),
     DateStr(2025, 2, 3), DateStr(2025, 2, 10)}
WindowEnds == {DateStr(2025, 2, 3), DateStr(2025, 3, 10), DateStr(2025, 4, 30)}

\* the query windows tried on a stored transaction
\* (the window four years on only for a transaction stored on a leap day)
Windows(t) ==
    (WindowStarts \X WindowEnds)
        \cup {<<t.date, t.date>>}
        \cup (IF SplitDate(t.date).m = 2 /\ SplitDate(t.date).d = 29
              THEN {<<DateStr(2028, 2, 1), DateStr(2028, 3, 10)>>}
              ELSE {})

(***************************************************************************)
(* The state machine.                                                      *)
(***************************************************************************)
NoRequest == [date |-> 0, recurring |-> Recurring(OtherText, <<>>)]
\* no range query answered on the present data file
NoReply ==
    [route |-> "none", start |-> 0, end |-> 0, list |-> <<>>,
     totals |-> [income |-> 0, expenses |-> 0, balance |-> 0]]

\* the server after its start, whatever its timezone
Started ==
    /\ transactions = <<>>
    /\ request = NoRequest
    /\ response = 0
    /\ pc = "idle"
    /\ startDate = 0
    /\ endDate = 0
    /\ pattern = ParseError
    /\ currentDate = 0
    /\ rangeStart = 0
    /\ rangeEnd = 0
    /\ until = 0
    /\ addedDates = {}
    /\ instances = <<>>
    /\ dataFile = <<>>
    /\ reply = NoReply
    /\ loginAttempts = <<>>
    /\ now = 0
    /\ pending = [right |-> 0, wrong |-> 0]
    /\ authenticated = FALSE
    /\ inflight = {}
    /\ acked = {}
    /\ gone = {}

Init == tz \in TimeZones /\ Started

\* POST /api/transactions with a recurring pattern (the other fields are valid)
PostTransaction(date, recurring) ==
    /\ pc = "idle"
    /\ transactions = <<>>
    /\ request' = [date |-> date, recurring |-> recurring]
    /\ IF ~ValidPattern(recurring.pattern)
       THEN /\ response' = 400
            /\ UNCHANGED transactions
       ELSE /\ transactions' = Append(transactions, NewTransaction("u1", date, recurring))
            /\ response' = 201
    /\ UNCHANGED <<tz, pc, startDate, endDate, pattern, currentDate, rangeStart,
                   rangeEnd, until, addedDates, instances, dataFile, reply,
                   login, writers>>

\* generateRecurringInstances(transactions[1], start, end) up to its loop
BeginExpand(start, end) ==
    /\ pc = "idle"
    /\ transactions # <<>>
    /\ LET t == transactions[1]
           p == parseRecurringPattern(t.recurring.pattern)
       IN  /\ startDate' = start
           /\ endDate' = end
           /\ pattern' = p
           /\ currentDate' = InitialDate(t, p, start)
           /\ rangeStart' = LocalDateOf(start)
           /\ rangeEnd' = LocalDateOf(end)
           /\ until' = UntilOf(t, end)
    /\ addedDates' = {}
    /\ instances' = <<>>
    /\ pc' = "loop"
    /\ UNCHANGED <<tz, transactions, request, response, dataFile, reply, login, writers>>

\* one test of the while condition and, when it holds, one pass through the body
LoopStep ==
    /\ pc = "loop"
    /\ IF currentDate <= until
       THEN /\ IF ShouldEmit(currentDate, rangeStart, rangeEnd, addedDates)
               THEN /\ instances' = Append(instances,
                                           Instance(transactions[1], ToISODate(currentDate)))
                    /\ addedDates' = addedDates \cup {ToISODate(currentDate)}
               ELSE UNCHANGED <<instances, addedDates>>
            /\ currentDate' = Advance(pattern, currentDate)
            /\ pc' = "loop"
       ELSE /\ pc' = "done"
            /\ UNCHANGED <<currentDate, instances, addedDates>>
    /\ UNCHANGED <<tz, transactions, request, response, startDate, endDate, pattern,
                   rangeStart, rangeEnd, until, dataFile, reply, login, writers>>

Next ==
    \/ \E date \in ProposedDates, p \in Patterns, u \in Untils :
           PostTransaction(date, Recurring(p, u))
    \/ /\ transactions # <<>>
       /\ \E w \in Windows(transactions[1]) : BeginExpand(w[1], w[2])
    \/ LoopStep

Spec == Init /\ [][Next]_vars

(***************************************************************************)
(* The same engine on servers in other timezones.                          *)
(***************************************************************************)
\* hours east of UTC: New York (winter), UTC, central Europe (summer)
Zones == {-5, 0, 2}

ZoneDates == {DateStr(2025, 1, 30), DateStr(2025, 2, 3)}
ZonePatterns == {Regular(1, "day", ""), Regular(1, "week", "monday"), MonthDay(15)}
ZoneWindows ==
    {<<DateStr(2025, 1, 27), DateStr(2025, 2, 2)>>,
     <<DateStr(2025, 2, 1), DateStr(2025, 2, 17)>>}

ZoneInit == tz \in Zones /\ Started

ZoneNext ==
    \/ \E date \in ZoneDates, p \in ZonePatterns : PostTransaction(date, Recurring(p, <<>>))
    \/ \E w \in ZoneWindows : BeginExpand(w[1], w[2])
    \/ LoopStep

ZoneSpec == ZoneInit /\ [][ZoneNext]_vars

(***************************************************************************)
(* The data file and the handlers that write and read it.                  *)
(*   - A stored transaction is [id, amount, description, date, category,   *)
(*     recurring]; category "" is an absent category, a recurring whose    *)
(*     pattern has form "none" is an absent (or null) recurring.  Its type *)
(*     is the list of the month bucket that holds it.                      *)
(*   - Amounts are whole numbers (of cents).                               *)
(***************************************************************************)
NoPattern ==
    [form |-> "none", n |-> 0, unit |-> "", on |-> "", before |-> "", after |-> ""]
NoRecurring == Recurring(NoPattern, <<>>)

\* t.recurring?.pattern is truthy
HasPattern(t) == t.recurring.pattern.form # "none"

\* `${year}-${month}` of a date string
MonthKey(date) == <<SplitDate(date).y, SplitDate(date).m>>

\* the ids crypto.randomUUID() returns, in the order it returns them
UUIDs == <<"u1", "u2", "u3", "u4">>

\* id.split('-')[0] of a UUID: its first group of digits, never a whole UUID
FirstGroup(id) ==
    CASE id = "u1" -> "u1.0"
      [] id = "u2" -> "u2.0"
      [] id = "u3" -> "u3.0"
      [] id = "u4" -> "u4.0"
      [] OTHER     -> "nn.0"

\* every transaction of the file with its type, month by month, income first
RECURSIVE Entries(_)
Entries(file) ==
    IF file = <<>>
    THEN <<>>
    ELSE [i \in 1..Len(file[1].income) |-> [type |-> "income"] @@ file[1].income[i]]
             \o [i \in 1..Len(file[1].expenses) |-> [type |-> "expense"] @@ file[1].expenses[i]]
             \o Entries(Tail(file))

StoredIds(file) == LET all == Entries(file) IN {all[i].id : i \in 1..Len(all)}

\* the next id of crypto.randomUUID(): one not in use
FreshId(file) ==
    LET used == StoredIds(file)
    IN  UUIDs[CHOOSE i \in 1..Len(UUIDs) :
                  UUIDs[i] \notin used /\ \A j \in 1..(i - 1) : UUIDs[j] \in used]

\* lines 331-339 and 730-738: the basic validation of a request body
BasicValid(body) ==
    /\ body.amount # 0
    /\ body.description # ""
    /\ body.type \in {"income", "expense"}
    /\ body.type = "expense" => body.category # ""

\* lines 409-426: the record POST stores
NewStored(id, body) ==
    NewTransaction(id, body.date, body.recurring)
        @@ [amount |-> body.amount, description |-> body.description,
            category |-> IF body.type = "expense" THEN body.category ELSE ""]

\* lines 388-429: the file after POST has stored record t of the given type
Pushed(file, type, t) ==
    LET key == MonthKey(t.date)
        withKey == IF \E i \in 1..Len(file) : file[i].key = key
                   THEN file
                   ELSE Append(file, [key |-> key, income |-> <<>>, expenses |-> <<>>])
        k == CHOOSE i \in 1..Len(withKey) : withKey[i].key = key
    IN  IF type = "expense"
        THEN [withKey EXCEPT ![k].expenses = Append(@, t)]
        ELSE [withKey EXCEPT ![k].income = Append(@, t)]

\* findIndex(t => t.id === one of ids), 1-based, 0 when no element has such an id
FindIndex(seq, ids) ==
    IF \E i \in 1..Len(seq) : seq[i].id \in ids
    THEN CHOOSE i \in 1..Len(seq) :
             seq[i].id \in ids /\ \A j \in 1..(i - 1) : seq[j].id \notin ids
    ELSE 0

\* Array.prototype.splice(i, 1)
Splice(seq, i) == SubSeq(seq, 1, i - 1) \o SubSeq(seq, i + 1, Len(seq))

\* the first month bucket, in key order, one of whose lists holds a match; 0 when none
FindMonth(file, ids) ==
    LET Holds(month) == FindIndex(month.income, ids) # 0 \/ FindIndex(month.expenses, ids) # 0
    IN  IF \E m \in 1..Len(file) : Holds(file[m])
        THEN CHOOSE m \in 1..Len(file) :
                 Holds(file[m]) /\ \A j \in 1..(m - 1) : ~Holds(file[j])
        ELSE 0

\* { ...t, amount, description, date, recurring: recurring || null }
Overwritten(t, body) ==
    [t EXCEPT !.amount = body.amount, !.description = body.description,
              !.date = body.date, !.recurring = body.recurring]

\* lines 744-801: the file after PUT of body on id (the file itself when id is not found)
Updated(file, id, body) ==
    LET Match == {id}
        m == FindMonth(file, Match)
    IN  IF m = 0 THEN file
        ELSE LET incomeIndex == FindIndex(file[m].income, Match)
                 expenseIndex == FindIndex(file[m].expenses, Match)
             IN  IF incomeIndex # 0
                 THEN IF body.type = "expense"
                      THEN [file EXCEPT
                               ![m].income = Splice(@, incomeIndex),
                               ![m].expenses =
                                   Append(@, Overwritten(
                                       [file[m].income[incomeIndex]
                                            EXCEPT !.category = body.category], body))]
                      ELSE [file EXCEPT ![m].income[incomeIndex] = Overwritten(@, body)]
                 ELSE IF body.type = "income"
                      THEN [file EXCEPT
                               ![m].expenses = Splice(@, expenseIndex),
                               ![m].income =
                                   Append(@, Overwritten(
                                       [file[m].expenses[expenseIndex]
                                            EXCEPT !.category = ""], body))]
                      ELSE [file EXCEPT ![m].expenses[expenseIndex] =
                                [Overwritten(@, body) EXCEPT !.category = body.category]]

\* lines 822-848: the file after DELETE of id (the file itself when nothing matches)
Deleted(file, id) ==
    LET Match == {FirstGroup(id), id}
        m == FindMonth(file, Match)
    IN  IF m = 0 THEN file
        ELSE LET incomeIndex == FindIndex(file[m].income, Match)
             IN  IF incomeIndex # 0
                 THEN [file EXCEPT ![m].income = Splice(@, incomeIndex)]
                 ELSE [file EXCEPT ![m].expenses =
                           Splice(@, FindIndex(file[m].expenses, Match))]

\* lines 822-848 for the id of a generated instance, `${uuid}-${dateStr}`: parentId is
\* the first group of the uuid, and t.id === id holds for no stored record (a stored id
\* is a UUID, an instance id is a UUID followed by a date)
DeletedByInstanceId(file, id) ==
    LET Match == {FirstGroup(id[1])}
        m == FindMonth(file, Match)
    IN  IF m = 0 THEN file
        ELSE LET incomeIndex == FindIndex(file[m].income, Match)
             IN  IF incomeIndex # 0
                 THEN [file EXCEPT ![m].income = Splice(@, incomeIndex)]
                 ELSE [file EXCEPT ![m].expenses =
                           Splice(@, FindIndex(file[m].expenses, Match))]

\* Array.prototype.sort((a, b) => new Date(b.date) - new Date(a.date)): stable, latest first
RECURSIVE SortByDateDesc(_)
SortByDateDesc(seq) ==
    IF seq = <<>>
    THEN <<>>
    ELSE LET x == seq[Len(seq)]
             sorted == SortByDateDesc(SubSeq(seq, 1, Len(seq) - 1))
             k == Cardinality({i \in 1..Len(sorted) :
                       NewDateFromString(sorted[i].date) >= NewDateFromString(x.date)})
         IN  SubSeq(sorted, 1, k) \o <<x>> \o SubSeq(sorted, k + 1, Len(sorted))

\* lines 314-318: the instances of the recurring transactions, one after the other
RECURSIVE InstancesOfAll(_, _, _)
InstancesOfAll(recurringTransactions, start, end) ==
    IF recurringTransactions = <<>>
    THEN <<>>
    ELSE generateRecurringInstances(recurringTransactions[1], start, end)
             \o InstancesOfAll(Tail(recurringTransactions), start, end)

\* parseRecurringPattern throws on the pattern of a stored recurring transaction
RangeThrows(file) ==
    LET all == Entries(file)
    IN  \E i \in 1..Len(all) :
            HasPattern(all[i]) /\ parseRecurringPattern(all[i].recurring.pattern).error

\* faulty variant of InWindow: the upper end of the window not tested
InWindowNoEnd(t, start, end) == t.date >= start

\* line 293 / 306: t.date >= startDate && t.date <= endDate
InWindow(t, start, end) == t.date >= start /\ t.date <= end

\* faulty variant of getTransactionsInRange: a recurring transaction dated in the
\* window is pushed to allTransactions as well
getTransactionsInRangeWithParents(file, start, end) ==
    LET allTransactions ==
            SelectSeq(Entries(file), LAMBDA t : InWindow(t, start, end))
        recurringTransactions == SelectSeq(Entries(file), HasPattern)
    IN  SortByDateDesc(allTransactions \o InstancesOfAll(recurringTransactions, start, end))

\* getTransactionsInRange on a file none of whose patterns throws
getTransactionsInRange(file, start, end) ==
    LET allTransactions ==
            SelectSeq(Entries(file), LAMBDA t : ~HasPattern(t) /\ InWindow(t, start, end))
        recurringTransactions == SelectSeq(Entries(file), HasPattern)
    IN  SortByDateDesc(allTransactions \o InstancesOfAll(recurringTransactions, start, end))

\* reduce((sum, t) => sum + t.amount, 0)
RECURSIVE SumAmounts(_)
SumAmounts(seq) == IF seq = <<>> THEN 0 ELSE seq[1].amount + SumAmounts(Tail(seq))

\* faulty variant of Totals: the expenses summed over the income entries too
TotalsOverAll(list) ==
    LET income == SumAmounts(SelectSeq(list, LAMBDA t : t.type = "income"))
        expenses == SumAmounts(list)
    IN  [income |-> income, expenses |-> expenses, balance |-> income - expenses]

\* lines 646-656: the totals of a list of entries
Totals(list) ==
    LET income == SumAmounts(SelectSeq(list, LAMBDA t : t.type = "income"))
        expenses == SumAmounts(SelectSeq(list, LAMBDA t : t.type = "expense"))
    IN  [income |-> income, expenses |-> expenses, balance |-> income - expenses]

\* description.replace(/"/g, '""'), quoted when it holds a comma: a text with neither
\* quote nor comma is left as it is
FormattedDescription(description) == description

\* lines 705-712: the CSV row of an entry, `${category},${t.date},${description},${value}`
ExportRow(t) ==
    [category |-> IF t.type = "income" THEN "Income" ELSE t.category,
     date |-> t.date,
     description |-> FormattedDescription(t.description),
     value |-> IF t.type = "income" THEN t.amount ELSE -t.amount]

(***************************************************************************)
(* Explored requests on the data file.                                     *)
(***************************************************************************)
\* a request body; a type of income carries no category
Body(type, amount, date, recurring) ==
    [type |-> type, amount |-> amount, description |-> "rent",
     category |-> IF type = "expense" THEN "home" ELSE "",
     date |-> date, recurring |-> recurring]

\* request bodies: a plain income and a plain expense in different months, a rule
\* "every 1 week on monday" proposed on a thursday, a text that is no pattern,
\* an expense without its category
Bodies ==
    {Body("income", 10, DateStr(2025, 1, 30), NoRecurring),
     Body("expense", 25, DateStr(2025, 2, 3), NoRecurring),
     Body("income", 25, DateStr(2025, 1, 30), Recurring(Regular(1, "week", "monday"), <<>>)),
     Body("expense", 10, DateStr(2025, 1, 30), Recurring(Regular(1, "week", "monday"), <<>>)),
     Body("income", 10, DateStr(2025, 1, 30), Recurring(OtherText, <<>>)),
     [Body("expense", 10, DateStr(2025, 1, 30), NoRecurring) EXCEPT !.category = ""]}

\* the request bodies of PUT: another month, a weekly rule on a thursday, a text
\* that is no pattern
Edits ==
    {Body("expense", 25, DateStr(2025, 2, 3), NoRecurring),
     Body("expense", 10, DateStr(2025, 1, 30), Recurring(Regular(1, "week", "monday"), <<>>)),
     Body("income", 10, DateStr(2025, 1, 30), Recurring(OtherText, <<>>))}

StoreWindows ==
    {<<DateStr(2025, 1, 27), DateStr(2025, 2, 2)>>,
     <<DateStr(2025, 2, 1), DateStr(2025, 2, 12)>>}

(***************************************************************************)
(* The state machine of the data file.                                     *)
(***************************************************************************)
engine == <<tz, transactions, request, pc, startDate, endDate, pattern, currentDate,
            rangeStart, rangeEnd, until, addedDates, instances, login, writers>>

\* POST /api/transactions
Create(body) ==
    /\ Cardinality(StoredIds(dataFile)) < MaxStored
    /\ IF ~BasicValid(body)
          \/ (body.recurring.pattern.form # "none" /\ ~ValidPattern(body.recurring.pattern))
       THEN /\ response' = 400
            /\ UNCHANGED dataFile
       ELSE /\ dataFile' = Pushed(dataFile, body.type, NewStored(FreshId(dataFile), body))
            /\ response' = 201
    /\ reply' = NoReply
    /\ UNCHANGED engine

\* PUT /api/transactions/:id
Update(id, body) ==
    /\ IF ~BasicValid(body)
       THEN /\ response' = 400
            /\ UNCHANGED dataFile
       ELSE IF id \notin StoredIds(dataFile)
       THEN /\ response' = 404
            /\ UNCHANGED dataFile
       ELSE /\ dataFile' = Updated(dataFile, id, body)
            /\ response' = 200
    /\ reply' = NoReply
    /\ UNCHANGED engine

\* DELETE /api/transactions/:id
Delete(id) ==
    /\ LET file == Deleted(dataFile, id)
       IN  IF file = dataFile
           THEN /\ response' = 404
                /\ UNCHANGED dataFile
           ELSE /\ dataFile' = file
                /\ response' = 200
    /\ reply' = NoReply
    /\ UNCHANGED engine

\* faulty variant of GetRange: the generated instances written to the data file
GetRangeSaving(start, end) ==
    /\ dataFile # <<>>
    /\ ~RangeThrows(dataFile)
    /\ LET list == SortByDateDesc(getTransactionsInRange(dataFile, start, end))
       IN  /\ reply' = [NoReply EXCEPT !.route = "list", !.start = start, !.end = end,
                                       !.list = list]
           /\ dataFile' = [dataFile EXCEPT ![1].income =
                               @ \o SelectSeq(list, LAMBDA e : "isRecurringInstance" \in DOMAIN e)]
    /\ response' = 200
    /\ UNCHANGED engine

\* GET /api/transactions/range
GetRange(start, end) ==
    /\ IF RangeThrows(dataFile)
       THEN /\ response' = 500
            /\ reply' = NoReply
       ELSE /\ response' = 200
            /\ reply' = [NoReply EXCEPT !.route = "list", !.start = start, !.end = end,
                             !.list = SortByDateDesc(getTransactionsInRange(dataFile, start, end))]
    /\ UNCHANGED <<engine, dataFile>>

\* GET /api/totals/range
GetTotals(start, end) ==
    /\ IF RangeThrows(dataFile)
       THEN /\ response' = 500
            /\ reply' = NoReply
       ELSE /\ response' = 200
            /\ reply' = [NoReply EXCEPT !.route = "totals", !.start = start, !.end = end,
                             !.totals = Totals(getTransactionsInRange(dataFile, start, end))]
    /\ UNCHANGED <<engine, dataFile>>

\* GET /api/export/range
GetExport(start, end) ==
    /\ IF RangeThrows(dataFile)
       THEN /\ response' = 500
            /\ reply' = NoReply
       ELSE /\ response' = 200
            /\ reply' = [NoReply EXCEPT
                             !.route = "export", !.start = start, !.end = end,
                             !.list = LET list == getTransactionsInRange(dataFile, start, end)
                                      IN  [i \in 1..Len(list) |-> ExportRow(list[i])]]
    /\ UNCHANGED <<engine, dataFile>>

StoreNext ==
    \/ \E body \in Bodies : Create(body)
    \/ \E id \in StoredIds(dataFile) \cup {UUIDs[Len(UUIDs)]}, body \in Edits : Update(id, body)
    \/ \E id \in StoredIds(dataFile) \cup {UUIDs[Len(UUIDs)]} : Delete(id)
    \/ \E w \in StoreWindows : GetRange(w[1], w[2])
    \/ \E w \in StoreWindows : GetTotals(w[1], w[2])
    \/ \E w \in StoreWindows : GetExport(w[1], w[2])

StoreSpec == Init /\ [][StoreNext]_vars

(***************************************************************************)
(* DELETE with the id of a generated instance.                             *)
(***************************************************************************)
\* the ids of the instances a range answer over a window of StoreWindows shows
InstanceIds(file) ==
    IF RangeThrows(file) THEN {}
    ELSE UNION {LET list == getTransactionsInRange(file, w[1], w[2])
                IN  {list[i].id : i \in {k \in 1..Len(list) :
                                            "isRecurringInstance" \in DOMAIN list[k]}}
                : w \in StoreWindows}

\* DELETE /api/transactions/:id, id the id of a generated instance
DeleteInstance(id) ==
    /\ request' = [id |-> id]
    /\ LET file == DeletedByInstanceId(dataFile, id)
       IN  IF file = dataFile
           THEN /\ response' = 404
                /\ UNCHANGED dataFile
           ELSE /\ dataFile' = file
                /\ response' = 200
    /\ reply' = NoReply
    /\ UNCHANGED <<tz, transactions, pc, startDate, endDate, pattern, currentDate,
                   rangeStart, rangeEnd, until, addedDates, instances, login, writers>>

InstanceDeleteNext ==
    \/ \E body \in Bodies : Create(body)
    \/ \E id \in StoredIds(dataFile) \cup {UUIDs[Len(UUIDs)]}, body \in Edits : Update(id, body)
    \/ \E id \in StoredIds(dataFile) \cup {UUIDs[Len(UUIDs)]} : Delete(id)
    \/ \E id \in InstanceIds(dataFile) \cup {<<UUIDs[Len(UUIDs)], DateStr(2025, 2, 3)>>} :
           DeleteInstance(id)

InstanceDeleteSpec == Init /\ [][InstanceDeleteNext]_vars

(***************************************************************************)
(* Concurrent write requests.  Every write handler awaits loadTransactions, *)
(* changes the object it got and awaits saveTransactions; other handlers   *)
(* run while it waits for the file to be read.  A request is in `inflight` *)
(* from the moment its read returns (with the content it read) until its   *)
(* write is done; `acked` holds the ids POST has answered 201 for, `gone`  *)
(* the ids DELETE has answered 200 for.  The write of the file is taken as *)
(* one step (a read that meets a half-written file would get the empty     *)
(* structure of line 65, which only adds behaviours).                      *)
(***************************************************************************)
RaceBodies == {body \in Bodies : BasicValid(body) /\ body.recurring.pattern.form = "none"}

Creating == {r \in inflight : r.op = "create"}

\* what the handlers of the data file leave alone
outside == <<tz, transactions, request, pc, startDate, endDate, pattern, currentDate,
             rangeStart, rangeEnd, until, addedDates, instances, login>>

\* await loadTransactions() of POST (line 388), PUT (line 740) or DELETE (line 818)
\* returns: the request holds the content of the file as it is now
BeginWrite(op, id, body) ==
    /\ Cardinality(inflight) < MaxInflight
    /\ op = "create" => Cardinality(acked) + Cardinality(Creating) < MaxStored
    /\ LET n == CHOOSE k \in 1..MaxInflight : \A r \in inflight : r.n # k
       IN  inflight' = inflight \cup
               {[n |-> n, op |-> op, id |-> id, body |-> body, snapshot |-> dataFile]}
    /\ UNCHANGED <<dataFile, response, reply, acked, gone, outside>>

\* the rest of the handler: the loaded object changed, saved and the answer sent
FinishWrite(r) ==
    /\ r \in inflight
    /\ inflight' = inflight \ {r}
    /\ reply' = NoReply
    /\ CASE r.op = "create" ->
              LET id == UUIDs[Cardinality(acked) + 1]
              IN  /\ dataFile' = Pushed(r.snapshot, r.body.type, NewStored(id, r.body))
                  /\ response' = 201
                  /\ acked' = acked \cup {id}
                  /\ UNCHANGED gone
         [] r.op = "update" ->
              /\ IF r.id \notin StoredIds(r.snapshot)
                 THEN response' = 404 /\ UNCHANGED dataFile
                 ELSE response' = 200 /\ dataFile' = Updated(r.snapshot, r.id, r.body)
              /\ UNCHANGED <<acked, gone>>
         [] r.op = "delete" ->
              LET file == Deleted(r.snapshot, r.id)
              IN  IF file = r.snapshot
                  THEN response' = 404 /\ UNCHANGED <<dataFile, acked, gone>>
                  ELSE /\ response' = 200
                       /\ dataFile' = file
                       /\ gone' = gone \cup {r.id}
                       /\ UNCHANGED acked
    /\ UNCHANGED outside

RaceNext ==
    \/ \E body \in RaceBodies : BeginWrite("create", "", body)
    \/ \E id \in StoredIds(dataFile), body \in RaceBodies : BeginWrite("update", id, body)
    \/ \E id \in StoredIds(dataFile) : BeginWrite("delete", id, CHOOSE body \in RaceBodies : TRUE)
    \/ \E r \in inflight : FinishWrite(r)

RaceSpec == Init /\ [][RaceNext]_vars

(***************************************************************************)
(* The calendar endpoint on the data file.                                 *)
(***************************************************************************)
\* new Date(month + '-01') of a store key
MonthDate(key) == NewDateFromString(DateStr(key[1], key[2], 1))

\* lines 934-958: filteredTransactions
RECURSIVE FilteredTransactions(_, _, _)
FilteredTransactions(file, start, end) ==
    IF file = <<>>
    THEN <<>>
    ELSE (IF /\ MonthDate(file[1].key) >= NewDateFromString(start)
             /\ MonthDate(file[1].key) <= NewDateFromString(end)
          THEN [i \in 1..Len(file[1].income) |-> [type |-> "income"] @@ file[1].income[i]]
                   \o [i \in 1..Len(file[1].expenses) |->
                           [type |-> "expense"] @@ file[1].expenses[i]]
          ELSE <<>>)
             \o FilteredTransactions(Tail(file), start, end)

\* GET /api/calendar/transactions with a valid token and valid dates
GetCalendar(start, end) ==
    /\ response' = 200
    /\ reply' = [NoReply EXCEPT !.route = "calendar", !.start = start, !.end = end,
                                !.list = FilteredTransactions(dataFile, start, end)]
    /\ UNCHANGED <<engine, dataFile>>

CalendarNext ==
    \/ \E body \in Bodies : Create(body)
    \/ \E id \in StoredIds(dataFile) \cup {UUIDs[Len(UUIDs)]}, body \in Edits : Update(id, body)
    \/ \E id \in StoredIds(dataFile) \cup {UUIDs[Len(UUIDs)]} : Delete(id)
    \/ \E w \in StoreWindows : GetCalendar(w[1], w[2])

CalendarSpec == Init /\ [][CalendarNext]_vars

(***************************************************************************)
(* Brute force protection of POST /verify-pin, for the requests of one ip  *)
(* and one session.  Time is counted in minutes; the 50-150 ms of the      *)
(* timer are no time on that scale, but any request may arrive and any     *)
(* other timer may fire between the lockout check and the comparison.      *)
(* A request body is "right" (the stored PIN), "wrong" (another string) or *)
(* "none" (no string).                                                     *)
(***************************************************************************)
MAX_ATTEMPTS == 5
LOCKOUT_TIME == 15

Pins == {"right", "wrong", "none"}

\* resetAttempts: the map without the ip
resetAttempts == <<>>

\* faulty variant of isLockedOut: the lockout begins one attempt late
isLockedOutAfterSix(attempts, t) ==
    /\ attempts # <<>>
    /\ attempts[1].count > MAX_ATTEMPTS
    /\ t - attempts[1].lastAttempt < LOCKOUT_TIME

\* the value isLockedOut returns at time t
isLockedOut(attempts, t) ==
    /\ attempts # <<>>
    /\ attempts[1].count >= MAX_ATTEMPTS
    /\ t - attempts[1].lastAttempt < LOCKOUT_TIME

\* the map entry isLockedOut leaves: an expired lockout is reset
AfterLockoutCheck(attempts, t) ==
    IF /\ attempts # <<>>
       /\ attempts[1].count >= MAX_ATTEMPTS
       /\ t - attempts[1].lastAttempt >= LOCKOUT_TIME
    THEN resetAttempts
    ELSE attempts

\* recordAttempt at time t
recordAttempt(attempts, t) ==
    <<[count |-> (IF attempts = <<>> THEN 0 ELSE attempts[1].count) + 1, lastAttempt |-> t]>>

\* verifyPin(PIN, pin)
verifyPin(pin) == pin = "right"

\* what the brute force protection leaves alone
budget == <<tz, transactions, pc, startDate, endDate, pattern, currentDate, rangeStart,
            rangeEnd, until, addedDates, instances, dataFile, reply, writers>>

\* POST /verify-pin up to the start of its timer (lines 218-237);
\* response 0: not answered yet
VerifyPin(pin) ==
    /\ request' = [pin |-> pin]
    /\ IF isLockedOut(loginAttempts, now)
       THEN /\ response' = 429
            /\ UNCHANGED <<loginAttempts, pending>>
       ELSE /\ loginAttempts' = AfterLockoutCheck(loginAttempts, now)
            /\ IF pin = "none"
               THEN /\ response' = 400
                    /\ UNCHANGED pending
               ELSE /\ pending.right + pending.wrong < MaxPending
                    /\ response' = 0
                    /\ pending' = [pending EXCEPT ![pin] = @ + 1]
    /\ UNCHANGED <<now, authenticated, budget>>

\* the timer of a waiting request fires (lines 238-265)
TimerFires(pin) ==
    /\ pending[pin] > 0
    /\ pending' = [pending EXCEPT ![pin] = @ - 1]
    /\ IF verifyPin(pin)
       THEN /\ loginAttempts' = resetAttempts
            /\ authenticated' = TRUE
            /\ response' = 200
       ELSE /\ loginAttempts' = recordAttempt(loginAttempts, now)
            /\ response' = 401
            /\ UNCHANGED authenticated
    /\ UNCHANGED <<now, request, budget>>

\* the cleanup interval finds the record of the ip old enough (lines 270-277)
Cleanup ==
    /\ loginAttempts # <<>>
    /\ now - loginAttempts[1].lastAttempt >= LOCKOUT_TIME
    /\ loginAttempts' = <<>>
    /\ UNCHANGED <<now, pending, authenticated, request, response, budget>>

\* a minute passes
Tick ==
    /\ now < MaxNow
    /\ now' = now + 1
    /\ UNCHANGED <<loginAttempts, pending, authenticated, request, response, budget>>

PinNext ==
    \/ \E pin \in Pins : VerifyPin(pin)
    \/ \E pin \in {"right", "wrong"} : TimerFires(pin)
    \/ Cleanup
    \/ Tick

PinSpec == Init /\ [][PinNext]_vars

(***************************************************************************)
(* Vocabulary of the properties.                                           *)
(***************************************************************************)
Stored == transactions[1]
StoredRule == parseRecurringPattern(Stored.recurring.pattern)
DatesOf(seq) == {seq[i].date : i \in 1..Len(seq)}
\* number of days of month m of year y
DaysInMonth(y, m) ==
    IF m = 12 THEN 31 ELSE DaysFromCivil(y, m + 1, 1) - DaysFromCivil(y, m, 1)
\* the weekday of a civil date, 0 = sunday
WeekdayOf(s) == (s + 4) % 7
\* the first day of the month after the one of civil date c
NextMonthOf(c) == IF c.m = 12 THEN [y |-> c.y + 1, m |-> 1] ELSE [y |-> c.y, m |-> c.m + 1]
\* a date is not after the stored until, when there is one
NotAfterUntil(d) == Stored.recurring.until = <<>> \/ d <= Stored.recurring.until[1]
Created == response = 201

(***************************************************************************)
(* C1  Window containment: every instance emitted by                       *)
(* generateRecurringInstances has a date d with startDate <= d <= endDate, *)
(* and d <= until whenever the transaction has an until (server in UTC).   *)
(***************************************************************************)
WindowContainment ==
    \A i \in 1..Len(instances) :
        /\ startDate <= instances[i].date
        /\ instances[i].date <= endDate
        /\ NotAfterUntil(instances[i].date)

\* a finished expansion cut at its start by the window and at its end by until
WindowContainmentWitness ==
    /\ pc = "done"
    /\ Len(instances) >= 2
    /\ Stored.recurring.until # <<>>
    /\ Stored.recurring.until[1] < endDate
    /\ Stored.date < startDate
    /\ instances[1].date = startDate
    /\ instances[Len(instances)].date = Stored.recurring.until[1]

(***************************************************************************)
(* C2  Window independence: a date lying in two query windows (and not     *)
(* after until) is emitted by the expansion over the one window if and     *)
(* only if it is emitted by the expansion over the other, with the same    *)
(* instance id.  Checked when the expansion over [startDate, endDate] has  *)
(* returned, against the expansion over every other window.                *)
(***************************************************************************)
WindowIndependence ==
    (pc = "done" /\ StoredRule.interval >= 1) =>
        \A w \in Windows(Stored) :
            LET other == generateRecurringInstances(Stored, w[1], w[2])
                inBoth(d) == /\ startDate <= d /\ d <= endDate
                             /\ w[1] <= d /\ d <= w[2]
                             /\ NotAfterUntil(d)
            IN  /\ \A i \in 1..Len(instances) :
                       inBoth(instances[i].date) =>
                           \E j \in 1..Len(other) : /\ other[j].date = instances[i].date
                                                    /\ other[j].id = instances[i].id
                /\ \A j \in 1..Len(other) :
                       inBoth(other[j].date) =>
                           \E i \in 1..Len(instances) : /\ instances[i].date = other[j].date
                                                        /\ instances[i].id = other[j].id

(***************************************************************************)
(* C3  Termination: the expansion loop terminates for every accepted       *)
(* pattern.  The loop is deterministic and leaves only when currentDate >  *)
(* until, and no step moves currentDate back, so it terminates exactly     *)
(* when every pass through its body moves currentDate strictly forward.    *)
(***************************************************************************)
LoopTerminates ==
    (pc = "loop" /\ currentDate <= until) => Advance(pattern, currentDate) > currentDate

(***************************************************************************)
(* C4  Biweekly scenario: the transaction stored on 2025-02-03 with        *)
(* "every 2 week on monday" and no until, expanded over                    *)
(* [2025-02-01, 2025-03-10], yields exactly 2025-02-03, 2025-02-17 and     *)
(* 2025-03-03, in this order (server in UTC).                              *)
(***************************************************************************)
BiweeklyCase ==
    /\ pc = "done"
    /\ Stored.date = DateStr(2025, 2, 3)
    /\ Stored.recurring = Recurring(Regular(2, "week", "monday"), <<>>)
    /\ startDate = DateStr(2025, 2, 1)
    /\ endDate = DateStr(2025, 3, 10)

BiweeklyScenario ==
    BiweeklyCase =>
        /\ Len(instances) = 3
        /\ instances[1].date = DateStr(2025, 2, 3)
        /\ instances[2].date = DateStr(2025, 2, 17)
        /\ instances[3].date = DateStr(2025, 3, 3)

\* the scenario as the documentation gives it: proposed on saturday 2025-02-01
BiweeklyWitness == BiweeklyCase /\ request.date = DateStr(2025, 2, 1) /\ instances # <<>>

(***************************************************************************)
(* C5  Anchor of a weekly rule with a weekday: the stored date is the      *)
(* first date on or after the proposed date that falls on the rule's       *)
(* weekday (0 to 6 days later, never earlier); for every other rule of the *)
(* regular grammar the stored date is the proposed date (server in UTC).   *)
(***************************************************************************)
WeeklyAnchor ==
    (Created /\ request.recurring.pattern.form = "regular") =>
        IF StoredRule.unit = "week" /\ StoredRule.dayOfWeek # ""
        THEN StoredRule.dayOfWeek \in WeekdayNames =>
                 /\ Stored.date - request.date \in 0..6
                 /\ WeekdayOf(Stored.date) = IndexOfWeekday(StoredRule.dayOfWeek)
        ELSE Stored.date = request.date

\* a proposed date the day after the rule's weekday: stored six days later
WeeklyAnchorWitness ==
    /\ Created
    /\ StoredRule.unit = "week"
    /\ StoredRule.dayOfWeek \in WeekdayNames
    /\ Stored.date = request.date + 6

(***************************************************************************)
(* C6  Anchor of a monthday rule "every Nth of the month": when day N      *)
(* exists in the proposed date's month and in the month after it, the      *)
(* stored date is day N of the proposed month if that is on or after the   *)
(* proposed date, and day N of the next month otherwise (server in UTC).   *)
(***************************************************************************)
MonthdayCase ==
    /\ Created
    /\ request.recurring.pattern.form = "monthday"
    /\ LET prop == SplitDate(request.date)
           next == NextMonthOf(prop)
           N == request.recurring.pattern.n
       IN  /\ N >= 1
           /\ N <= DaysInMonth(prop.y, prop.m)
           /\ N <= DaysInMonth(next.y, next.m)

MonthdayAnchor ==
    MonthdayCase =>
        LET prop == SplitDate(request.date)
            next == NextMonthOf(prop)
            N == request.recurring.pattern.n
        IN  Stored.date = IF N >= prop.d
                          THEN DateStr(prop.y, prop.m, N)
                          ELSE DateStr(next.y, next.m, N)

\* day N already passed in the proposed month: stored in the next month
MonthdayAnchorWitness ==
    /\ MonthdayCase
    /\ request.recurring.pattern.n < SplitDate(request.date).d
    /\ SplitDate(Stored.date).m = NextMonthOf(SplitDate(request.date)).m

(***************************************************************************)
(* C7  Fixed day-of-month without wrap: for a monthday rule with           *)
(* dayOfMonth D in 1..31 the stored date and every emitted instance fall   *)
(* on day D of their month, or, in a month without a day D, on its last    *)
(* day; never on a rolled-over date at the start of the following month.   *)
(***************************************************************************)
OnDayOrClamped(s, D) ==
    LET c == SplitDate(s)
    IN  \/ c.d = D
        \/ D > DaysInMonth(c.y, c.m) /\ c.d = DaysInMonth(c.y, c.m)

FixedDayOfMonth ==
    (Created /\ StoredRule.unit = "monthday" /\ StoredRule.dayOfMonth \in 1..31) =>
        /\ OnDayOrClamped(Stored.date, StoredRule.dayOfMonth)
        /\ \A i \in 1..Len(instances) :
               OnDayOrClamped(instances[i].date, StoredRule.dayOfMonth)

(***************************************************************************)
(* C8  Month and year stepping preserve the day: every instance of a month *)
(* rule falls on the anchor's day-of-month when its month has that day,    *)
(* and every instance of a year rule on the anchor's month and day when    *)
(* its year has that date.                                                 *)
(***************************************************************************)
StepPreservesDay ==
    Created =>
        \A i \in 1..Len(instances) :
            LET a == SplitDate(Stored.date)
                c == SplitDate(instances[i].date)
            IN  /\ (StoredRule.unit = "month" /\ a.d <= DaysInMonth(c.y, c.m))
                       => c.d = a.d
                /\ (StoredRule.unit = "year" /\ a.d <= DaysInMonth(c.y, a.m))
                       => (c.m = a.m /\ c.d = a.d)

(***************************************************************************)
(* C9  Anchor is emitted: when the stored date lies in the query window    *)
(* and is not after until, the finished expansion contains an instance     *)
(* dated at the stored date.  Stated for the rules of the regular grammar  *)
(* (the stored date of a monthday rule is the subject of C7).              *)
(***************************************************************************)
AnchorEmitted ==
    (pc = "done" /\ StoredRule.unit # "monthday"
        /\ startDate <= Stored.date /\ Stored.date <= endDate
        /\ NotAfterUntil(Stored.date))
    => Stored.date \in DatesOf(instances)

(***************************************************************************)
(* C10  Round trip on the anchor: the expansion of a created transaction   *)
(* over [anchor, anchor] returns exactly one instance, dated at the        *)
(* anchor, and none when until < anchor.  Stated for the expansions that   *)
(* return and, of the monthday rules, for those with dayOfMonth in 1..31.  *)
(***************************************************************************)
RoundTrip ==
    (pc = "done" /\ startDate = Stored.date /\ endDate = Stored.date
        /\ (StoredRule.unit = "monthday" => StoredRule.dayOfMonth \in 1..31))
    => IF NotAfterUntil(Stored.date)
       THEN Len(instances) = 1 /\ instances[1].date = Stored.date
       ELSE instances = <<>>

(***************************************************************************)
(* C11  Monotonicity: within one call of generateRecurringInstances the    *)
(* dates of the emitted instances are strictly increasing in emission      *)
(* order, so no date is emitted twice.                                     *)
(***************************************************************************)
Monotonicity ==
    \A i \in 1..(Len(instances) - 1) : instances[i].date < instances[i + 1].date

\* a finished expansion with at least three instances
MonotonicityWitness == pc = "done" /\ Len(instances) >= 3

(***************************************************************************)
(* C12  Whole-string grammar: a pattern is accepted (the create request is *)
(* answered 201 and parseRecurringPattern yields a rule) only if the whole *)
(* string is a sentence of one of the two grammars, with no text before or *)
(* after it.                                                               *)
(***************************************************************************)
WholeStringGrammar ==
    Created => /\ request.recurring.pattern.before = ""
               /\ request.recurring.pattern.after = ""

(***************************************************************************)
(* C13  Positive interval: every rule parseRecurringPattern returns for an *)
(* accepted pattern has interval >= 1.                                     *)
(***************************************************************************)
PositiveInterval == Created => StoredRule.interval >= 1

(***************************************************************************)
(* C14  Weekday clause validity: a returned rule has dayOfWeek only when   *)
(* its unit is week, and then it is one of the seven weekday names; it has *)
(* dayOfMonth only when its unit is monthday.                              *)
(***************************************************************************)
WeekdayClauseValid ==
    Created =>
        /\ StoredRule.dayOfWeek # "" =>
               (StoredRule.unit = "week" /\ StoredRule.dayOfWeek \in WeekdayNames)
        /\ StoredRule.dayOfMonth # 0 => StoredRule.unit = "monthday"

(***************************************************************************)
(* C15  Day-of-month range: every returned rule of unit monthday has       *)
(* interval 1 and dayOfMonth in 1..31.                                     *)
(***************************************************************************)
DayOfMonthRange ==
    (Created /\ StoredRule.unit = "monthday") =>
        (StoredRule.interval = 1 /\ StoredRule.dayOfMonth \in 1..31)

(***************************************************************************)
(* Vocabulary of the properties of the data file.                          *)
(***************************************************************************)
\* the stored transactions, each with its type
StoredEntries == Entries(dataFile)
\* the stored transactions that carry a recurring pattern
StoredRecurring == SelectSeq(StoredEntries, HasPattern)
RuleOf(t) == parseRecurringPattern(t.recurring.pattern)

(***************************************************************************)
(* C16  Invalid patterns rejected on every write: after any sequence of    *)
(* create, update and delete requests every stored recurring pattern is    *)
(* parsed by parseRecurringPattern without error, and no range query is    *)
(* answered with status 500.                                               *)
(***************************************************************************)
StoredPatternsParse ==
    /\ \A i \in 1..Len(StoredRecurring) : ~RuleOf(StoredRecurring[i]).error
    /\ response # 500

(***************************************************************************)
(* C17  Stored anchor invariant: after any sequence of create, update and  *)
(* delete requests every stored recurring transaction whose rule is weekly *)
(* with a weekday has a date on that weekday, and every stored recurring   *)
(* transaction whose rule is a monthday rule has a date on its dayOfMonth. *)
(***************************************************************************)
StoredAnchors ==
    \A i \in 1..Len(StoredRecurring) :
        LET t == StoredRecurring[i] IN
        /\ (RuleOf(t).unit = "week" /\ RuleOf(t).dayOfWeek \in WeekdayNames) =>
               WeekdayOf(t.date) = IndexOfWeekday(RuleOf(t).dayOfWeek)
        /\ RuleOf(t).unit = "monthday" => SplitDate(t.date).d = RuleOf(t).dayOfMonth

\* an entry of a range answer is a generated instance
IsInstance(e) == "isRecurringInstance" \in DOMAIN e
\* entry e of a range answer is the stored transaction t
IsStored(e, t) == ~IsInstance(e) /\ e = t
\* the fields an instance takes over from its parent
CopiedFields == {"type", "amount", "description", "category", "recurring"}

RangeMembership ==
    reply.route = "list" =>
        LET plain == SelectSeq(StoredEntries,
                         LAMBDA t : /\ ~HasPattern(t)
                                    /\ reply.start <= t.date /\ t.date <= reply.end)
            parents == StoredRecurring
            instancesOf == [j \in 1..Len(parents) |->
                               generateRecurringInstances(parents[j], reply.start, reply.end)]
            Occurs(e) == Cardinality({i \in 1..Len(reply.list) :
                             /\ IsInstance(reply.list[i]) = IsInstance(e)
                             /\ reply.list[i] = e})
        IN  /\ \A k \in 1..Len(plain) : Occurs(plain[k]) = 1
            /\ \A j \in 1..Len(parents) :
                   \A k \in 1..Len(instancesOf[j]) : Occurs(instancesOf[j][k]) = 1
            /\ \A i \in 1..Len(reply.list) :
                   LET e == reply.list[i] IN
                   IF IsInstance(e)
                   THEN \E j \in 1..Len(parents) :
                            \E k \in 1..Len(instancesOf[j]) : instancesOf[j][k] = e
                   ELSE \E k \in 1..Len(plain) : plain[k] = e

\* an answer holding a plain transaction kept in the bucket of another month
\* (an update changed its date), with instances beside it
RangeMembershipWitness ==
    /\ reply.route = "list"
    /\ \E i \in 1..Len(reply.list) : IsInstance(reply.list[i])
    /\ \E m \in 1..Len(dataFile) : \E k \in 1..Len(dataFile[m].expenses) :
           LET t == dataFile[m].expenses[k] IN
           /\ ~HasPattern(t)
           /\ dataFile[m].key # MonthKey(t.date)
           /\ \E i \in 1..Len(reply.list) : IsStored(reply.list[i], [type |-> "expense"] @@ t)

(***************************************************************************)
(* C20  Range totals: the answer of GET /api/totals/range over a window    *)
(* has income equal to the sum of the amounts of the income entries, and   *)
(* expenses equal to the sum of the amounts of the expense entries, of the *)
(* list GET /api/transactions/range answers for the same window and data   *)
(* file, and balance = income - expenses.                                  *)
(***************************************************************************)
RECURSIVE SumOfType(_, _)
SumOfType(list, type) ==
    IF list = <<>>
    THEN 0
    ELSE (IF list[1].type = type THEN list[1].amount ELSE 0) + SumOfType(Tail(list), type)

RangeTotals ==
    reply.route = "totals" =>
        LET list == SortByDateDesc(getTransactionsInRange(dataFile, reply.start, reply.end))
        IN  /\ reply.totals.income = SumOfType(list, "income")
            /\ reply.totals.expenses = SumOfType(list, "expense")
            /\ reply.totals.balance = reply.totals.income - reply.totals.expenses

\* totals over instances of a recurring income and a plain expense
RangeTotalsWitness ==
    /\ reply.route = "totals"
    /\ reply.totals.income = 50
    /\ reply.totals.expenses = 25
    /\ reply.totals.balance = 25
    /\ Len(StoredRecurring) = 1

(***************************************************************************)
(* C21  Range queries are read-only and repeatable: no stored record is a  *)
(* generated instance (has isRecurringInstance); a step that answers GET   *)
(* /api/transactions/range, /api/totals/range or /api/export/range leaves  *)
(* the data file as it was; and a query repeated on the same route with    *)
(* the same window, with no write in between, gets the same answer.        *)
(***************************************************************************)
ReadOnlyQueries ==
    /\ [](\A i \in 1..Len(StoredEntries) : ~IsInstance(StoredEntries[i]))
    /\ [][(reply' # NoReply \/ response' = 500) => dataFile' = dataFile]_vars
    /\ [][(/\ reply # NoReply /\ reply' # NoReply
            /\ reply'.route = reply.route
            /\ reply'.start = reply.start /\ reply'.end = reply.end) => reply' = reply]_vars

\* the answer of an export over a data file with a recurring transaction: rows of instances
ReadOnlyQueriesWitness ==
    /\ reply.route = "export"
    /\ Len(reply.list) >= 3
    /\ StoredRecurring # <<>>
    /\ \E i \in 1..Len(reply.list) : reply.list[i].value < 0

(***************************************************************************)
(* C22  Timezone independence: in every server timezone the stored date of *)
(* a created recurring transaction is the civil date of its first          *)
(* occurrence (the first date not before the proposed one on the weekday   *)
(* of a weekly rule, or on the day of a monthday rule; the proposed date   *)
(* itself otherwise), and every emitted instance has a date in the query   *)
(* window, not before the stored date, on the weekday or the day of the    *)
(* rule.                                                                   *)
(***************************************************************************)
\* civil date d is an occurrence day of the stored rule
OnRuleDay(d) ==
    /\ (StoredRule.unit = "week" /\ StoredRule.dayOfWeek \in WeekdayNames) =>
           WeekdayOf(d) = IndexOfWeekday(StoredRule.dayOfWeek)
    /\ StoredRule.unit = "monthday" => SplitDate(d).d = StoredRule.dayOfMonth

TimezoneIndependence ==
    Created =>
        /\ OnRuleDay(Stored.date)
        /\ Stored.date >= request.date
        /\ (StoredRule.unit = "week" /\ StoredRule.dayOfWeek \in WeekdayNames) =>
               Stored.date - request.date < 7
        /\ (StoredRule.unit \in Units /\ StoredRule.dayOfWeek = "") =>
               Stored.date = request.date
        /\ \A i \in 1..Len(instances) :
               /\ instances[i].id = <<Stored.id, instances[i].date>>
               /\ startDate <= instances[i].date /\ instances[i].date <= endDate
               /\ Stored.date <= instances[i].date
               /\ OnRuleDay(instances[i].date)

(***************************************************************************)
(* C23  Calendar endpoint range: the answer of GET /api/calendar/          *)
(* transactions over [start_date, end_date] holds every stored transaction *)
(* whose date lies in the range and every instance generateRecurring-      *)
(* Instances returns for a stored recurring transaction and that range,    *)
(* and holds no entry whose date lies outside the range.                   *)
(***************************************************************************)
CalendarRange ==
    reply.route = "calendar" =>
        LET Listed(d, parent) ==
                \E i \in 1..Len(reply.list) :
                    /\ reply.list[i].date = d
                    /\ \/ reply.list[i].id = parent
                       \/ /\ IsInstance(reply.list[i])
                          /\ reply.list[i].recurringParentId = parent
        IN  /\ \A k \in 1..Len(StoredEntries) :
                   (reply.start <= StoredEntries[k].date /\ StoredEntries[k].date <= reply.end)
                       => Listed(StoredEntries[k].date, StoredEntries[k].id)
            /\ \A j \in 1..Len(StoredRecurring) :
                   ~RuleOf(StoredRecurring[j]).error =>
                       LET inst == generateRecurringInstances(StoredRecurring[j],
                                                              reply.start, reply.end)
                       IN  \A k \in 1..Len(inst) :
                               Listed(inst[k].date, StoredRecurring[j].id)
            /\ \A i \in 1..Len(reply.list) :
                   reply.start <= reply.list[i].date /\ reply.list[i].date <= reply.end

(***************************************************************************)
(* C24  PIN lockout: a POST /verify-pin arriving while the ip has 5 or     *)
(* more recorded failures, less than 15 minutes after the latest one, is   *)
(* answered 429 whatever PIN it carries, authenticates nothing, starts no  *)
(* timer and leaves the attempt record as it is; one arriving 15 minutes   *)
(* or more after the latest failure is not answered 429 and finds the      *)
(* record deleted (the count starts again from 0); and a timer that finds  *)
(* the right PIN deletes the record and authenticates the session.         *)
(***************************************************************************)
FiveFailures == loginAttempts # <<>> /\ loginAttempts[1].count >= 5

PinLockout ==
    /\ [][\A pin \in Pins :
             (VerifyPin(pin) /\ FiveFailures /\ now - loginAttempts[1].lastAttempt < 15) =>
                 /\ response' = 429
                 /\ loginAttempts' = loginAttempts
                 /\ authenticated' = authenticated
                 /\ pending' = pending]_vars
    /\ [][\A pin \in Pins :
             (VerifyPin(pin) /\ FiveFailures /\ now - loginAttempts[1].lastAttempt >= 15) =>
                 /\ response' # 429
                 /\ loginAttempts' = <<>>
                 /\ pin # "none" => pending'[pin] = pending[pin] + 1]_vars
    /\ [][(TimerFires("right")) =>
              (loginAttempts' = <<>> /\ authenticated' /\ response' = 200)]_vars
    /\ [][(TimerFires("wrong") /\ loginAttempts = <<>>) =>
              (loginAttempts'[1].count = 1 /\ response' = 401)]_vars

\* the right PIN refused during the lockout, the session not authenticated
PinLockoutWitness ==
    /\ response = 429
    /\ request.pin = "right"
    /\ ~authenticated
    /\ FiveFailures
    /\ now - loginAttempts[1].lastAttempt = 14

(***************************************************************************)
(* C25  No occurrence in a skipped week: for a week rule with a weekday    *)
(* and interval k > 1, every date emitted so far by the expansion, for     *)
(* every query window, lies a whole multiple of k weeks after the stored   *)
(* anchor date.                                                            *)
(***************************************************************************)
NoSkippedWeek ==
    (pc # "idle" /\ StoredRule.unit = "week" /\ StoredRule.dayOfWeek \in WeekdayNames
        /\ StoredRule.interval > 1)
    => \A d \in DatesOf(instances) :
           (d - Stored.date) % (7 * StoredRule.interval) = 0

(***************************************************************************)
(* C26  No double counting: in the answer of a range query every stored    *)
(* recurring transaction P has at most one entry per date (an instance of  *)
(* P, or P itself), no entry is a stored recurring transaction as such,    *)
(* where the expansion of P yields an instance for the anchor date P.date  *)
(* the answer has exactly one entry of P with that date, and the range     *)
(* totals count the amount of P once for every date of its expansion,      *)
(* beside the plain transactions of the window.                            *)
(***************************************************************************)
OfParent(e, P) == IF IsInstance(e) THEN e.recurringParentId = P.id ELSE e.id = P.id

RECURSIVE CountedOnce(_, _, _, _)
CountedOnce(entries, type, start, end) ==
    IF entries = <<>>
    THEN 0
    ELSE LET t == entries[1]
             times == IF HasPattern(t)
                      THEN Cardinality(DatesOf(generateRecurringInstances(t, start, end)))
                      ELSE IF start <= t.date /\ t.date <= end THEN 1 ELSE 0
         IN  (IF t.type = type THEN t.amount * times ELSE 0)
                 + CountedOnce(Tail(entries), type, start, end)

GuessesBounded == loginAttempts # <<>> => loginAttempts[1].count <= 5

(***************************************************************************)
(* C29  Month-bucket invariant: after any sequence of create, update and   *)
(* delete requests every stored transaction lives under the store key      *)
(* equal to the YYYY-MM of its own date.                                   *)
(***************************************************************************)
MonthBuckets ==
    \A m \in 1..Len(dataFile) :
        /\ \A k \in 1..Len(dataFile[m].income) :
               dataFile[m].key = MonthKey(dataFile[m].income[k].date)
        /\ \A k \in 1..Len(dataFile[m].expenses) :
               dataFile[m].key = MonthKey(dataFile[m].expenses[k].date)

(***************************************************************************)
(* C30  Delete by instance id: DELETE /api/transactions/:id with the id of *)
(* a generated instance of a stored recurring transaction P (P.id a        *)
(* server-generated UUID) answers 200 and removes exactly P; with an id    *)
(* that matches no stored transaction and no parent it answers 404 and     *)
(* leaves the data file as it was; and no request removes more than one    *)
(* stored transaction.                                                     *)
(***************************************************************************)
DeleteByInstanceId ==
    /\ [][\A id \in InstanceIds(dataFile) :
             DeleteInstance(id) =>
                 /\ response' = 200
                 /\ StoredIds(dataFile') = StoredIds(dataFile) \ {id[1]}
                 /\ Len(Entries(dataFile')) = Len(Entries(dataFile)) - 1]_vars
    /\ [][(\/ Delete(UUIDs[Len(UUIDs)])
           \/ DeleteInstance(<<UUIDs[Len(UUIDs)], DateStr(2025, 2, 3)>>)) =>
              (response' = 404 /\ dataFile' = dataFile)]_vars
    /\ [][Len(Entries(dataFile')) >= Len(Entries(dataFile)) - 1]_vars

(***************************************************************************)
(* C28  No lost update: for every interleaving of concurrent write         *)
(* requests, once no request is under way the data file holds every        *)
(* transaction a POST has answered 201 for, unless a DELETE has answered   *)
(* 200 for it, and none that a DELETE has answered 200 for.                *)
(***************************************************************************)
NoLostUpdate ==
    inflight = {} =>
        /\ \A id \in acked \ gone : id \in StoredIds(dataFile)
        /\ \A id \in gone : id \notin StoredIds(dataFile)
====
